---- MODULE Spec2Model ----
(***************************************************************************)
(* Model of backend/app.py: a UDP listener thread that stores location     *)
(* reports in the PostgreSQL table "locations", and a Flask API that reads *)
(* the table.  The store is the only state the two sides share.            *)
(*                                                                         *)
(* Numbers are abstract: a JSON number is a tagged value [t, v]; epoch     *)
(* milliseconds are small integers and the range datetime.fromtimestamp    *)
(* accepts is scaled down to DatetimeMinMs..DatetimeMaxMs.                 *)
(***************************************************************************)
EXTENDS Integers, Sequences, FiniteSets, TLC

\* ------------------------------------------------------------------ bounds
\* datagrams the listener receives in one run
MaxDatagrams == 2
\* HTTP requests in flight at once (app.run(threaded=True))
NumHandlers == 1

\* ------------------------------------------------------ program constants
\* datetime.fromtimestamp raises beyond datetime.max (year 9999); the limit
\* in epoch milliseconds, scaled down
DatetimeMaxMs == 5000

\* ------------------------------------------------------------ JSON values
\* A decoded JSON value as Python sees it.  "absent" is a key that is not
\* in the object; "null" is JSON null (Python None).
Val(t, v) == [t |-> t, v |-> v]
Absent == Val("absent", 0)
JNull == Val("null", 0)
JInt(n) == Val("int", n)
JFloat(n) == Val("float", n)
JBool(n) == Val("bool", n)
JStr(n) == Val("str", n)
PyNone == Val("None", 0)

\* Values the senders put in the three fields.  lat and lon are in tenths
\* of a degree (JFloat(401) stands for 40.1, JFloat(-37) for -3.7), time is
\* in milliseconds.
LatVals == {Absent, JNull, JInt(0), JFloat(401), JBool(1)}
LonVals == {Absent, JNull, JInt(0), JFloat(-37)}
TimeVals == {Absent, JNull, JInt(0), JInt(1700), JInt(9000), JStr(0), JBool(1)}

\* A datagram: its bytes are empty, not UTF-8, text that is not JSON, JSON
\* that is no object, or a JSON object with (some of) lat, lon, time.
Dgram(k, la, lo, ti) == [kind |-> k, lat |-> la, lon |-> lo, time |-> ti]
NonObjectKinds == {"empty", "badutf8", "nonjson", "jarray", "jnumber", "jstring", "jnull"}
Datagrams ==
    {Dgram(k, Absent, Absent, Absent) : k \in NonObjectKinds}
    \cup {Dgram("object", la, lo, ti) : la \in LatVals, lo \in LonVals, ti \in TimeVals}
NoDgram == Dgram("none", Absent, Absent, Absent)

\* The datagrams sent while HTTP requests are served as well: one of each
\* way a datagram can end (the thread ends, not JSON, a field missing, the
\* time out of range, the row rejected by the store, two rows stored).
SampleDatagrams ==
    {Dgram("badutf8", Absent, Absent, Absent),
     Dgram("nonjson", Absent, Absent, Absent),
     Dgram("object", JFloat(401), Absent, JInt(1700)),
     Dgram("object", JFloat(401), JFloat(-37), JInt(9000)),
     Dgram("object", JBool(1), JFloat(-37), JInt(1700)),
     Dgram("object", JFloat(401), JFloat(-37), JInt(1700)),
     Dgram("object", JInt(0), JInt(0), JInt(0))}

\* ------------------------------------------------- save_location_data, pure
\* data_str = data.decode('utf-8') in udp_listener: raises UnicodeDecodeError
\* on bytes that are not UTF-8, otherwise gives the text
Utf8Decode(d) == IF d.kind = "badutf8" THEN "UnicodeDecodeError" ELSE "text"

\* json.loads(data_str): raises JSONDecodeError on text that is not JSON
JsonLoads(d) == IF d.kind = "nonjson" THEN "JSONDecodeError" ELSE "value"

\* a bug that reads a missing key as 0 (data.get(key, 0))
DictGet_DefaultZero(d, key) ==
    LET x == d[key] IN
    IF x.t = "absent" THEN JInt(0) ELSE IF x.t = "null" THEN PyNone ELSE x

\* data.get(key): None when the key is absent, and JSON null is None too
DictGet(d, key) ==
    LET x == d[key] IN IF x.t \in {"absent", "null"} THEN PyNone ELSE x

\* a bug that tests for falsiness (not lat or not lon or not app_time_ms):
\* None, 0, 0.0 and False are falsy
AnyFieldNone_Falsy(lat, lon, app_time_ms) ==
    \E x \in {lat, lon, app_time_ms} :
        x = PyNone \/ (x.t \in {"int", "float", "bool"} /\ x.v = 0)

\* lat is None or lon is None or app_time_ms is None
AnyFieldNone(lat, lon, app_time_ms) ==
    lat = PyNone \/ lon = PyNone \/ app_time_ms = PyNone

\* app_time_ms / 1000.0 needs a number; Python's bool is an int (True is 1)
IsPyNumber(x) == x.t \in {"int", "float", "bool"}

\* a bug that takes a time of 0 for no time
\* (datetime.fromtimestamp(...) if app_time_ms else None)
FromTimestamp_ZeroAsNone(x) ==
    IF x.v = 0 THEN PyNone
    ELSE IF x.v > DatetimeMaxMs THEN Val("ValueError", 0) ELSE Val("datetime", x.v)

\* datetime.fromtimestamp(app_time_ms / 1000.0): the point in time, kept in
\* milliseconds, out of range beyond datetime.max
FromTimestamp(x) ==
    IF x.v > DatetimeMaxMs THEN Val("ValueError", 0) ELSE Val("datetime", x.v)

NoParams == [latitude |-> PyNone, longitude |-> PyNone, app_timestamp |-> PyNone,
             full_data |-> [lat |-> Absent, lon |-> Absent, time |-> Absent]]

\* json.dumps(data): the whole decoded object, as received
JsonDumps(d) == [lat |-> d.lat, lon |-> d.lon, time |-> d.time]

\* Lines 82-98 up to cur.execute: what the body of the try block does with
\* the text of a datagram.  out is "insert" when the INSERT is to be
\* executed with params, "discarded" for the early return, and otherwise
\* the exception raised.
Prepare(d) ==
    IF JsonLoads(d) = "JSONDecodeError"
    THEN [out |-> "JSONDecodeError", params |-> NoParams]
    ELSE IF d.kind # "object"
    THEN [out |-> "AttributeError", params |-> NoParams]
    ELSE LET lat == DictGet(d, "lat")
             lon == DictGet(d, "lon")
             app_time_ms == DictGet(d, "time")
         IN IF AnyFieldNone(lat, lon, app_time_ms)
            THEN [out |-> "discarded", params |-> NoParams]
            ELSE IF ~IsPyNumber(app_time_ms)
            THEN [out |-> "TypeError", params |-> NoParams]
            ELSE IF FromTimestamp(app_time_ms).t = "ValueError"
            THEN [out |-> "ValueError", params |-> NoParams]
            ELSE [out |-> "insert",
                  params |-> [latitude |-> lat, longitude |-> lon,
                              app_timestamp |-> FromTimestamp(app_time_ms),
                              full_data |-> JsonDumps(d)]]

\* ------------------------------------------------------------- the store
\* A value bound to a DOUBLE PRECISION NOT NULL column: Python ints and
\* floats are stored as doubles, a bool or a null is rejected.
IsDoubleInput(x) == x.t \in {"int", "float"}
ToDouble(x) == JFloat(x.v)

\* INSERT INTO locations (latitude, longitude, app_timestamp, full_data):
\* whether the store accepts the row
StoreAccepts(p) == IsDoubleInput(p.latitude) /\ IsDoubleInput(p.longitude)

\* a bug that binds the parameters of the INSERT in the wrong order
MakeRow_Swapped(id, p, n) ==
    [id |-> id, latitude |-> ToDouble(p.longitude), longitude |-> ToDouble(p.latitude),
     app_timestamp |-> p.app_timestamp, full_data |-> p.full_data, dgram |-> n]

\* the row the INSERT makes; id comes from the SERIAL sequence
MakeRow(id, p, n) ==
    [id |-> id, latitude |-> ToDouble(p.latitude), longitude |-> ToDouble(p.longitude),
     app_timestamp |-> p.app_timestamp, full_data |-> p.full_data, dgram |-> n]

NoRow == [id |-> 0, latitude |-> PyNone, longitude |-> PyNone,
          app_timestamp |-> PyNone,
          full_data |-> [lat |-> Absent, lon |-> Absent, time |-> Absent], dgram |-> 0]

Range(s) == {s[i] : i \in 1..Len(s)}

\* a store or connection setting under which a query reads the row of a
\* transaction that is still open
Visible_Dirty(tbl, txn) == IF txn = NoRow THEN tbl ELSE Append(tbl, txn)

\* Lines 98-99 and 165: the INSERT runs in a transaction that conn.commit()
\* ends, so the rows a SELECT of another connection sees are the committed
\* ones, not the row of the open transaction
Visible(tbl, txn) == tbl

\* a bug that takes the row out of the table as it reads it
\* (DELETE ... RETURNING in place of SELECT)
AfterSelect_Consumes(tbl) ==
    IF tbl = <<>> THEN tbl ELSE SubSeq(tbl, 1, Len(tbl) - 1)

\* Lines 145 and 165: the statements of the handlers are SELECTs; the table
\* after a SELECT is the table before it
AfterSelect(tbl) == tbl

\* a bug that takes the sender's clock for recency (ORDER BY app_timestamp DESC)
SelectLatest_ByTimestamp(tbl) ==
    IF tbl = <<>> THEN NoRow
    ELSE CHOOSE r \in Range(tbl) :
             \A s \in Range(tbl) : s.app_timestamp.v <= r.app_timestamp.v

\* a bug that sorts the wrong way round (ORDER BY id ASC)
SelectLatest_Asc(tbl) ==
    IF tbl = <<>> THEN NoRow
    ELSE CHOOSE r \in Range(tbl) : \A s \in Range(tbl) : s.id >= r.id

\* SELECT latitude, longitude, app_timestamp FROM locations
\* ORDER BY id DESC LIMIT 1; then cur.fetchone(): NoRow stands for None
SelectLatest(tbl) ==
    IF tbl = <<>> THEN NoRow
    ELSE CHOOSE r \in Range(tbl) : \A s \in Range(tbl) : s.id <= r.id

\* ---------------------------------------------------------- HTTP responses
Resp(st, ks, la, lo, ts, txt) ==
    [status |-> st, keys |-> ks, latitude |-> la, longitude |-> lo,
     timestamp |-> ts, text |-> txt]
NoResp == Resp(0, {}, PyNone, PyNone, PyNone, "")
ErrorResp == Resp(500, {"error"}, PyNone, PyNone, PyNone, "")

\* werkzeug's own answer to an exception that leaves a view function
FlaskErrorResp == Resp(500, {}, PyNone, PyNone, PyNone, "Internal Server Error")

\* a bug that catches only the errors of a rejected statement, not a lost
\* connection (except psycopg2.ProgrammingError)
HandlerCatches_NotOperational(exc) == exc # "OperationalError"

\* Lines 149 and 180: "except Exception" catches every exception raised in
\* the try block of a handler
HandlerCatches(exc) == TRUE

\* Lines 149-150 and 180-182: the handler's answer to an exception
Failure(exc) == IF HandlerCatches(exc) THEN ErrorResp ELSE FlaskErrorResp

\* latest_record[2].isoformat(): AttributeError when app_timestamp is NULL
IsoFormat(ts) ==
    IF ts.t = "datetime" THEN Val("isoformat", ts.v) ELSE Val("AttributeError", 0)

\* a bug that drops the test "if latest_record": subscripting None raises
\* TypeError, which the handler answers with 500
LatestResponse_NoCheck(latest_record) ==
    IF latest_record = NoRow THEN Failure("TypeError")
    ELSE Resp(200, {"latitude", "longitude", "timestamp"},
              latest_record.latitude, latest_record.longitude,
              IsoFormat(latest_record.app_timestamp), "")

\* Lines 168-178: the response built from the fetched record
LatestResponse(latest_record) ==
    IF latest_record # NoRow
    THEN IF IsoFormat(latest_record.app_timestamp).t = "AttributeError"
         THEN Failure("AttributeError")
         ELSE Resp(200, {"latitude", "longitude", "timestamp"},
                   latest_record.latitude, latest_record.longitude,
                   IsoFormat(latest_record.app_timestamp), "")
    ELSE Resp(404, {"message"}, PyNone, PyNone, PyNone, "")

\* Line 148: the success response of test_database
DbTestResponse == Resp(200, {"status", "message", "result"}, PyNone, PyNone, PyNone, "OK")

\* ------------------------------------------------------------------ state
Handlers == 1..NumHandlers

VARIABLES
    dbUp,         \* the store accepts connections and statements
    tableExists,  \* the table "locations" exists
    rows,         \* the committed rows of "locations", in insertion order
    nextId,       \* the next value of the SERIAL sequence of id
    mpc,          \* position of the main thread (__main__)
    mconn,        \* setup_database holds an open connection
    lpc,          \* position of the udp_listener thread
    cur,          \* the datagram the listener is processing
    lconn,        \* save_location_data holds an open connection
    pending,      \* the parameters of the INSERT about to be executed
    ltxn,         \* the row inserted in the open transaction, not yet committed
    seq,          \* number of datagrams received so far
    entered,      \* the listener has reached its receive loop
    attempts,     \* INSERTs executed for the current datagram
    log,          \* what the listener has logged: <<datagram number, message>>
    hpc,          \* position of each request handler
    hep,          \* the endpoint each handler serves
    hconn,        \* the handler holds an open connection
    hresp         \* the response of each handler

storeVars == <<dbUp, tableExists, rows, nextId>>
mainVars == <<mpc, mconn>>
listenerVars == <<lpc, cur, lconn, pending, ltxn, seq, entered, attempts, log>>
handlerVars == <<hpc, hep, hconn, hresp>>
vars == <<dbUp, tableExists, rows, nextId, mpc, mconn, lpc, cur, lconn, pending,
          ltxn, seq, entered, attempts, log, hpc, hep, hconn, hresp>>

\* The process has just been started.  The store is an external server: it
\* may be up or down, and a fresh table has no rows.
Init ==
    /\ dbUp \in BOOLEAN
    /\ tableExists \in BOOLEAN
    /\ rows = <<>>
    /\ nextId = 1
    /\ mpc = "setup_connect"
    /\ mconn = FALSE
    /\ lpc = "notstarted"
    /\ cur = NoDgram
    /\ lconn = FALSE
    /\ pending = NoParams
    /\ ltxn = NoRow
    /\ seq = 0
    /\ entered = FALSE
    /\ attempts = 0
    /\ log = <<>>
    /\ hpc = [h \in Handlers |-> "idle"]
    /\ hep = [h \in Handlers |-> "none"]
    /\ hconn = [h \in Handlers |-> FALSE]
    /\ hresp = [h \in Handlers |-> NoResp]

\* psycopg2.connect(**DB_CONFIG) in get_db_connection: a connection when the
\* store is reachable, None (after logging) on every exception
get_db_connection == dbUp

\* ------------------------------------------------------------ environment
\* The store becomes unreachable, or reachable again.
StoreToggle ==
    /\ dbUp' = ~dbUp
    /\ UNCHANGED <<tableExists, rows, nextId>>
    /\ UNCHANGED <<mainVars, listenerVars, handlerVars>>

\* ------------------------------------------------------- main, __main__
\* setup_database, lines 45-48: conn = get_db_connection(); None -> False
SetupConnect ==
    /\ mpc = "setup_connect"
    /\ IF get_db_connection
       THEN mconn' = TRUE /\ mpc' = "setup_ddl"
       ELSE mconn' = FALSE /\ mpc' = "exited"
    /\ UNCHANGED <<storeVars, listenerVars, handlerVars>>

\* a bug that drops the table and makes it anew (DROP TABLE IF EXISTS)
CreateTable_Recreate(exists, tbl) == [ok |-> TRUE, exists |-> TRUE, rows |-> <<>>]

\* a bug that leaves out IF NOT EXISTS: the store rejects the statement
\* when the table is there
CreateTable_Plain(exists, tbl) == [ok |-> ~exists, exists |-> TRUE, rows |-> tbl]

\* Lines 52-62: CREATE TABLE IF NOT EXISTS locations (...) and commit: the
\* statement succeeds whether the table exists or not, and an existing
\* table keeps its rows
CreateTable(exists, tbl) == [ok |-> TRUE, exists |-> TRUE, rows |-> tbl]

\* setup_database, lines 50-67: CREATE TABLE IF NOT EXISTS and commit; an
\* exception (the store went away, the statement was rejected) gives False
SetupDDL ==
    /\ mpc = "setup_ddl"
    /\ LET r == CreateTable(tableExists, rows) IN
          IF dbUp /\ r.ok
          THEN tableExists' = r.exists /\ rows' = r.rows /\ mpc' = "setup_ok"
          ELSE tableExists' = tableExists /\ rows' = rows /\ mpc' = "setup_failed"
    /\ UNCHANGED <<dbUp, nextId, mconn, listenerVars, handlerVars>>

\* a bug that goes on to start the services whatever setup_database returned
SetupSucceeded_Always(pc) == TRUE

\* Line 192: if not setup_database(): ... exit(1); True was returned only
\* after the commit of line 63
SetupSucceeded(pc) == pc = "setup_ok"

\* setup_database, lines 68-70 (finally: conn.close()), then lines 193-199:
\* exit(1) when it returned False, else start the listener thread and app.run
SetupClose ==
    /\ mpc \in {"setup_ok", "setup_failed"}
    /\ mconn' = FALSE
    /\ IF SetupSucceeded(mpc)
       THEN mpc' = "serving" /\ lpc' = "bind"
       ELSE mpc' = "exited" /\ lpc' = lpc
    /\ UNCHANGED <<storeVars, cur, lconn, pending, ltxn, seq, entered, attempts,
                   log, handlerVars>>

\* --------------------------------------------------- udp_listener thread
\* the datagrams that have a committed row
HasRow(n) == \E r \in Range(rows) : r.dgram = n

\* logger.info / logger.warning / logger.error while datagram seq is
\* processed: the message is named after the line's text or the exception
Logged(msg) == Append(log, [n |-> seq, msg |-> msg])

\* what psycopg2 raises from a statement: OperationalError when the store
\* is gone, another DatabaseError when the store rejects the statement
StoreError == IF dbUp THEN "DatabaseError" ELSE "OperationalError"

\* a bug that lets JSONDecodeError leave save_location_data
SaveCatches_NotJson(exc) == exc # "JSONDecodeError"

\* Lines 102-105: "except json.JSONDecodeError" and "except Exception" catch
\* every exception raised in the try block of save_location_data
SaveCatches(exc) == TRUE

\* a bug that tries the INSERT again after the store failed
OnSaveError_Retry(stage) ==
    IF stage = "store" /\ attempts < 2 THEN "execute" ELSE "close"

\* Lines 102-108: after a caught exception (raised while parsing, or by the
\* store) the function logs, closes the connection in "finally" and
\* returns; nothing is tried again
OnSaveError(stage) == "close"

\* a bug that returns before the try block is entered, so that "finally"
\* does not run and the connection stays open
OnDiscard_NoFinally == "recv"

\* Line 89: the early return is inside the try block, so "finally" (lines
\* 106-108) closes the connection before the function returns
OnDiscard == "close"

\* where save_location_data goes when exc is raised in its try block: the
\* handler of lines 102-105, or "finally" alone when nothing catches it
Raise(exc, stage) ==
    IF SaveCatches(exc) THEN OnSaveError(stage) ELSE "close_propagate"

\* Lines 113-115: create the socket and bind it; an OSError (port in use)
\* is caught by line 120 and the thread ends without listening
Bind ==
    /\ lpc = "bind"
    /\ \E ok \in BOOLEAN :
          IF ok THEN lpc' = "recv" /\ entered' = TRUE
                ELSE lpc' = "ended" /\ entered' = FALSE
    /\ UNCHANGED <<storeVars, mainVars, cur, lconn, pending, ltxn, seq, attempts,
                   log, handlerVars>>

\* Line 117: data, _ = s.recvfrom(1024), one of the datagrams in D arrives
Recv(D) ==
    /\ lpc = "recv"
    /\ seq < MaxDatagrams
    /\ \E d \in D : cur' = d
    /\ seq' = seq + 1
    /\ attempts' = 0
    /\ lpc' = "got"
    /\ UNCHANGED <<storeVars, mainVars, lconn, pending, ltxn, entered, log,
                   handlerVars>>

RecvAny == Recv(Datagrams)
RecvSample == Recv(SampleDatagrams)

\* Lines 118-121: "if data:" skips an empty datagram; data.decode('utf-8')
\* is evaluated in the loop, so its UnicodeDecodeError is caught only by the
\* "except Exception" around the whole loop, which logs and lets the thread
\* end.  Otherwise save_location_data is entered.
Decode ==
    /\ lpc = "got"
    /\ IF cur.kind = "empty"
       THEN lpc' = "recv" /\ log' = log
       ELSE IF Utf8Decode(cur) = "UnicodeDecodeError"
       THEN lpc' = "ended" /\ log' = Logged("listener_error")
       ELSE lpc' = "connect" /\ log' = log
    /\ UNCHANGED <<storeVars, mainVars, cur, lconn, pending, ltxn, seq, entered,
                   attempts, handlerVars>>

\* save_location_data, lines 76-79: conn = get_db_connection(); without a
\* connection the function logs and returns
SaveConnect ==
    /\ lpc = "connect"
    /\ IF get_db_connection
       THEN lconn' = TRUE /\ lpc' = "parse" /\ log' = log
       ELSE lconn' = FALSE /\ lpc' = "recv" /\ log' = Logged("no_connection")
    /\ UNCHANGED <<storeVars, mainVars, cur, pending, ltxn, seq, entered, attempts,
                   handlerVars>>

\* save_location_data, lines 82-91: parse, read the three fields, check
\* them, convert the time
SaveParse ==
    /\ lpc = "parse"
    /\ LET p == Prepare(cur) IN
          IF p.out = "insert"
          THEN lpc' = "execute" /\ pending' = p.params /\ log' = log
          ELSE /\ pending' = NoParams
               /\ lpc' = IF p.out = "discarded" THEN OnDiscard ELSE Raise(p.out, "parse")
               /\ log' = IF p.out = "discarded" \/ SaveCatches(p.out)
                         THEN Logged(p.out) ELSE log
    /\ UNCHANGED <<storeVars, mainVars, cur, lconn, ltxn, seq, entered, attempts,
                   handlerVars>>

\* save_location_data, lines 93-98: cur.execute(INSERT ...).  The row gets
\* its id from the sequence and stays in the open transaction.  The store
\* raises when it is gone or rejects the values.
SaveExecute ==
    /\ lpc = "execute"
    /\ attempts' = attempts + 1
    /\ IF dbUp /\ tableExists /\ StoreAccepts(pending)
       THEN /\ ltxn' = MakeRow(nextId, pending, seq)
            /\ nextId' = nextId + 1
            /\ lpc' = "commit"
            /\ log' = log
       ELSE /\ ltxn' = NoRow
            /\ nextId' = nextId
            /\ lpc' = Raise(StoreError, "store")
            /\ log' = IF SaveCatches(StoreError) THEN Logged(StoreError) ELSE log
    /\ UNCHANGED <<dbUp, tableExists, rows, mainVars, cur, lconn, pending, seq,
                   entered, handlerVars>>

\* save_location_data, lines 99-100: conn.commit() makes the row visible
\* and the success is logged; it raises when the store is gone, and the
\* transaction is lost
SaveCommit ==
    /\ lpc = "commit"
    /\ IF dbUp
       THEN rows' = Append(rows, ltxn) /\ lpc' = "close" /\ log' = Logged("saved")
       ELSE /\ rows' = rows
            /\ lpc' = Raise(StoreError, "store")
            /\ log' = IF SaveCatches(StoreError) THEN Logged(StoreError) ELSE log
    /\ ltxn' = NoRow
    /\ UNCHANGED <<dbUp, tableExists, nextId, mainVars, cur, lconn, pending, seq,
                   entered, attempts, handlerVars>>

\* save_location_data, lines 106-108: finally: conn.close(); then back in
\* the loop of udp_listener at recvfrom (an exception that was not caught
\* ends the loop at line 120, where it is logged)
SaveClose ==
    /\ lpc \in {"close", "close_propagate"}
    /\ lconn' = FALSE
    /\ pending' = NoParams
    /\ IF lpc = "close"
       THEN lpc' = "recv" /\ log' = log
       ELSE lpc' = "ended" /\ log' = Logged("listener_error")
    /\ UNCHANGED <<storeVars, mainVars, cur, ltxn, seq, entered, attempts,
                   handlerVars>>

\* ------------------------------------------------------- Flask handlers
\* a health check that asks the store, as /api/db_test does
HealthResponse_ChecksStore ==
    IF dbUp
    THEN Resp(200, {"status", "message", "timestamp"}, PyNone, PyNone, PyNone, "healthy")
    ELSE Resp(500, {"status", "message", "timestamp"}, PyNone, PyNone, PyNone, "unhealthy")

\* Lines 130-134: the body of health_check
HealthResponse == Resp(200, {"status", "message", "timestamp"}, PyNone, PyNone, PyNone, "OK")

\* A handler takes a request when the server runs and it is not busy.
Free(h) == mpc = "serving" /\ hpc[h] \in {"idle", "done"}

\* GET /api/health, lines 128-135: no access to the store
health_check(h) ==
    /\ Free(h)
    /\ hep' = [hep EXCEPT ![h] = "health"]
    /\ hresp' = [hresp EXCEPT ![h] = HealthResponse]
    /\ hpc' = [hpc EXCEPT ![h] = "done"]
    /\ UNCHANGED <<storeVars, mainVars, listenerVars, hconn>>

\* Lines 139-141 and 157-161: conn = get_db_connection(); without a
\* connection the handler answers 500 with an error key
HandlerConnect(h, ep) ==
    /\ Free(h)
    /\ hep' = [hep EXCEPT ![h] = ep]
    /\ IF get_db_connection
       THEN /\ hconn' = [hconn EXCEPT ![h] = TRUE]
            /\ hresp' = [hresp EXCEPT ![h] = NoResp]
            /\ hpc' = [hpc EXCEPT ![h] = "query"]
       ELSE /\ hconn' = hconn
            /\ hresp' = [hresp EXCEPT ![h] = ErrorResp]
            /\ hpc' = [hpc EXCEPT ![h] = "done"]
    /\ UNCHANGED <<storeVars, mainVars, listenerVars>>

\* GET /api/db_test, lines 137-141
TestDbConnect(h) == HandlerConnect(h, "db_test")

\* test_database, lines 143-150: SELECT 1; an exception gives 500
TestDbQuery(h) ==
    /\ hpc[h] = "query" /\ hep[h] = "db_test"
    /\ hresp' = [hresp EXCEPT ![h] =
                   IF dbUp THEN DbTestResponse ELSE Failure("OperationalError")]
    /\ hpc' = [hpc EXCEPT ![h] = "close"]
    /\ rows' = IF dbUp THEN AfterSelect(rows) ELSE rows
    /\ UNCHANGED <<dbUp, tableExists, nextId, mainVars, listenerVars, hep, hconn>>

\* GET /api/latest_location, lines 155-161
LatestConnect(h) == HandlerConnect(h, "latest_location")

\* get_latest_location, lines 163-182: the SELECT sees the committed rows;
\* an exception (the store is gone, the table is missing, the timestamp
\* cannot be formatted) gives 500
LatestQuery(h) ==
    /\ hpc[h] = "query" /\ hep[h] = "latest_location"
    /\ hresp' = [hresp EXCEPT ![h] =
                   IF dbUp /\ tableExists
                   THEN LatestResponse(SelectLatest(Visible(rows, ltxn)))
                   ELSE Failure(StoreError)]
    /\ hpc' = [hpc EXCEPT ![h] = "close"]
    /\ rows' = IF dbUp /\ tableExists THEN AfterSelect(rows) ELSE rows
    /\ UNCHANGED <<dbUp, tableExists, nextId, mainVars, listenerVars, hep, hconn>>

\* Lines 151-153 and 183-185: finally: conn.close(); the response is sent
HandlerClose(h) ==
    /\ hpc[h] = "close"
    /\ hconn' = [hconn EXCEPT ![h] = FALSE]
    /\ hpc' = [hpc EXCEPT ![h] = "done"]
    /\ UNCHANGED <<storeVars, mainVars, listenerVars, hep, hresp>>

\* ---------------------------------------------------------- specification
\* The ingestion path alone, with every datagram of Datagrams: the main
\* thread, the listener thread and the store.
NextIngest ==
    \/ StoreToggle
    \/ SetupConnect
    \/ SetupDDL
    \/ SetupClose
    \/ Bind
    \/ RecvAny
    \/ Decode
    \/ SaveConnect
    \/ SaveParse
    \/ SaveExecute
    \/ SaveCommit
    \/ SaveClose

SpecIngest == Init /\ [][NextIngest]_vars

\* The whole process: the listener thread and the request handlers run
\* concurrently against the store.
Next ==
    \/ StoreToggle
    \/ SetupConnect
    \/ SetupDDL
    \/ SetupClose
    \/ Bind
    \/ RecvSample
    \/ Decode
    \/ SaveConnect
    \/ SaveParse
    \/ SaveExecute
    \/ SaveCommit
    \/ SaveClose
    \/ \E h \in Handlers : health_check(h)
    \/ \E h \in Handlers : TestDbConnect(h)
    \/ \E h \in Handlers : TestDbQuery(h)
    \/ \E h \in Handlers : LatestConnect(h)
    \/ \E h \in Handlers : LatestQuery(h)
    \/ \E h \in Handlers : HandlerClose(h)

Spec == Init /\ [][Next]_vars

\* The process is stopped and started again (lines 189-196 run anew): its
\* threads, connections and open transaction are gone, the store and the
\* log file stay.  seq goes on counting the datagrams ever received.
Restart ==
    /\ mpc' = "setup_connect"
    /\ mconn' = FALSE
    /\ lpc' = "notstarted"
    /\ cur' = NoDgram
    /\ lconn' = FALSE
    /\ pending' = NoParams
    /\ ltxn' = NoRow
    /\ entered' = FALSE
    /\ attempts' = 0
    /\ hpc' = [h \in Handlers |-> "idle"]
    /\ hep' = [h \in Handlers |-> "none"]
    /\ hconn' = [h \in Handlers |-> FALSE]
    /\ hresp' = [h \in Handlers |-> NoResp]
    /\ UNCHANGED <<storeVars, seq, log>>

\* The whole process, run again and again against the same store.
NextRestart ==
    \/ Next
    \/ Restart

SpecRestart == Init /\ [][NextRestart]_vars

\* ------------------------------------------------------------------ claims
\* the datagrams whose processing was logged as ended without a stored row
Dropped == {log[i].n : i \in {k \in DOMAIN log : log[k].msg # "saved"}}

\* the number of rows stored for the datagrams received before datagram n
SavedBefore(n) ==
    Cardinality({i \in DOMAIN log : log[i].msg = "saved" /\ log[i].n < n})

\* a JSON object in which lat, lon or time is absent
MissingField(d) ==
    d.kind = "object" /\ (d.lat = Absent \/ d.lon = Absent \/ d.time = Absent)

\* a JSON object with numeric lat, numeric lon and integer time
NumericPayload(d) ==
    /\ d.kind = "object"
    /\ d.lat.t \in {"int", "float"}
    /\ d.lon.t \in {"int", "float"}
    /\ d.time.t = "int"

\* the messages logged for datagram n
Messages(n) == {log[i].msg : i \in {k \in DOMAIN log : log[k].n = n}}

\* the rows made for datagram n
RowsOf(n) == {i \in DOMAIN rows : rows[i].dgram = n}

\* C1: once the listener has entered its receive loop it stays listening:
\* whatever the datagram and whatever the store does, the thread never ends.
C1_ListenerStaysListening == entered => lpc # "ended"

\* C2 as stated: a numeric payload processed while the store stays
\* reachable always has its row when save_location_data reaches its end.
C2_EveryNumericPayloadStored ==
    (/\ NumericPayload(cur)
     /\ lpc = "close"
     /\ "OperationalError" \notin Messages(seq)) => HasRow(seq)

\* C2, amended: a numeric payload whose time datetime.fromtimestamp can
\* convert, processed with no error from the store, has exactly one row
\* when save_location_data reaches its end, with the payload's lat and lon;
\* and a query that runs while that row is the last one stored answers 200
\* with the payload's lat and lon.
C2_InRangePayloadStoredAndReturned ==
    /\ [](( /\ NumericPayload(cur)
            /\ cur.time.v <= DatetimeMaxMs
            /\ lpc = "close"
            /\ Messages(seq) \cap {"OperationalError", "DatabaseError"} = {})
          => /\ Cardinality(RowsOf(seq)) = 1
             /\ Len(rows) = SavedBefore(seq) + 1
             /\ \A i \in RowsOf(seq) :
                   /\ rows[i].latitude.v = cur.lat.v
                   /\ rows[i].longitude.v = cur.lon.v)
    /\ [][\A h \in Handlers :
            (LatestQuery(h) /\ dbUp /\ HasRow(seq))
            => /\ hresp'[h].status = 200
               /\ hresp'[h].keys = {"latitude", "longitude", "timestamp"}
               /\ hresp'[h].latitude.v = cur.lat.v
               /\ hresp'[h].longitude.v = cur.lon.v]_vars

\* C2 happens: a second datagram with lat 40.1 and lon -3.7 was stored
\* after one with lat 0, and the query answered 200 with 40.1 and -3.7.
C2_Witness ==
    \E h \in Handlers :
        /\ Len(rows) = 2
        /\ HasRow(seq)
        /\ rows[1].latitude = JFloat(0)
        /\ cur.lat = JFloat(401)
        /\ hep[h] = "latest_location"
        /\ hpc[h] = "done"
        /\ hresp[h].status = 200
        /\ hresp[h].latitude = JFloat(401)
        /\ hresp[h].longitude = JFloat(-37)

\* C3: a JSON object in which lat, lon or time is absent is discarded: while
\* and after it is processed the table has the rows it had before, no row
\* is made for it and none waits in a transaction.
C3_MissingFieldDiscarded ==
    MissingField(cur) =>
        /\ ~HasRow(seq)
        /\ ltxn = NoRow
        /\ Len(rows) = SavedBefore(seq)

\* C3 happens: a datagram was stored, then one with a missing field was
\* received, logged as discarded, and the listener is back at recvfrom.
C3_Witness ==
    /\ MissingField(cur)
    /\ lpc = "recv"
    /\ Len(rows) = 1
    /\ log # <<>>
    /\ log[Len(log)] = [n |-> seq, msg |-> "discarded"]

\* C4: text that is not JSON is discarded: no row is made for it, the table
\* keeps the rows it had, and the listener goes through connect, parse and
\* close back to recvfrom, never to its end.
C4_NonJsonDiscarded ==
    cur.kind = "nonjson" =>
        /\ ~HasRow(seq)
        /\ ltxn = NoRow
        /\ Len(rows) = SavedBefore(seq)
        /\ lpc \in {"got", "connect", "parse", "close", "recv"}

\* C4 happens: a datagram that was not JSON was logged and discarded, and
\* the datagram received after it was stored.
C4_Witness ==
    \E i \in DOMAIN log :
        /\ log[i].msg = "JSONDecodeError"
        /\ HasRow(log[i].n + 1)

\* C5: a datagram that is not UTF-8 is discarded and the listener goes back
\* to recvfrom for the next datagram.
C5_UndecodableDiscarded ==
    (cur.kind = "badutf8" /\ lpc # "got") => lpc = "recv"

C7_EmptyTableIs404 ==
    [][\A h \in Handlers :
         (LatestQuery(h) /\ dbUp /\ rows = <<>>)
         => /\ hresp'[h].status = 404
            /\ "message" \in hresp'[h].keys
            /\ "latitude" \notin hresp'[h].keys]_vars

\* C7 happens: the table is empty, the store is up, and the handler has
\* answered 404.
C7_Witness ==
    \E h \in Handlers :
        /\ rows = <<>>
        /\ dbUp
        /\ hep[h] = "latest_location"
        /\ hpc[h] = "done"
        /\ hresp[h].status = 404

\* C8: get_latest_location answers 500 with an error key when the
\* connection cannot be opened and when the query fails; every answer is
\* 200, 404 or 500, and the server goes on serving.
C8_StoreFailureIs500 ==
    [][\A h \in Handlers :
         /\ (LatestConnect(h) /\ ~dbUp)
            => /\ hpc'[h] = "done"
               /\ hresp'[h].status = 500
               /\ "error" \in hresp'[h].keys
         /\ (LatestQuery(h) /\ ~dbUp)
            => /\ hresp'[h].status = 500
               /\ "error" \in hresp'[h].keys
         /\ (LatestConnect(h) \/ LatestQuery(h) \/ HandlerClose(h))
            => /\ mpc' = "serving"
               /\ hpc'[h] \in {"close", "done"} => hresp'[h].status \in {200, 404, 500}]_vars

\* C8 happens: the store is down and get_latest_location has answered 500
\* with an error key after its connection was closed.
C8_Witness ==
    \E h \in Handlers :
        /\ ~dbUp
        /\ mpc = "serving"
        /\ hep[h] = "latest_location"
        /\ hpc[h] = "done"
        /\ ~hconn[h]
        /\ hresp[h].status = 500
        /\ "error" \in hresp[h].keys

C10_DroppedForGood ==
    /\ attempts <= 1
    /\ \A n \in Dropped : ~HasRow(n)
    /\ \A i, j \in DOMAIN rows : rows[i].dgram = rows[j].dgram => i = j
    /\ lpc = "recv" => (pending = NoParams /\ ltxn = NoRow /\ ~lconn)

\* C10 happens: the first datagram failed at the store (no connection, the
\* INSERT or the commit raised), the store is reachable again, the second
\* datagram was stored and the first still has no row.
C10_Witness ==
    /\ \E i \in DOMAIN log :
          /\ log[i].n = 1
          /\ log[i].msg \in {"no_connection", "OperationalError", "DatabaseError"}
    /\ dbUp
    /\ HasRow(2)
    /\ ~HasRow(1)
    /\ lpc = "recv"

\* C11: rows are append-only: in every step of the listener, the handlers,
\* setup_database and a restart of the process, each row of the table stays
\* where it is with the values it has.
C11_RowsAppendOnly ==
    [][\A i \in DOMAIN rows : i \in DOMAIN rows' /\ rows'[i] = rows[i]]_vars

\* C11 happens: two rows were stored, the process was started again and
\* setup_database has run over the table that holds them.
C11_Witness ==
    /\ Len(rows) = 2
    /\ mpc = "setup_ok"
    /\ rows[1].id = 1
    /\ rows[2].id = 2

\* the connections open in the process
OpenConnections ==
    (IF mconn THEN 1 ELSE 0) + (IF lconn THEN 1 ELSE 0)
    + Cardinality({h \in Handlers : hconn[h]})

\* no storage operation is in progress
NoOperation ==
    /\ mpc \in {"setup_connect", "serving", "exited"}
    /\ lpc \in {"notstarted", "bind", "recv", "got", "connect", "ended"}
    /\ \A h \in Handlers : hpc[h] \in {"idle", "done"}

\* C12: each storage operation holds a connection of its own from its
\* connect to its close and at no other time, whichever way it ends, so no
\* connection is open when no operation is in progress.
C12_ConnectionsScoped ==
    /\ mconn <=> mpc \in {"setup_ddl", "setup_ok", "setup_failed"}
    /\ lconn <=> lpc \in {"parse", "execute", "commit", "close", "close_propagate"}
    /\ \A h \in Handlers : hconn[h] <=> hpc[h] \in {"query", "close"}
    /\ NoOperation => OpenConnections = 0

\* C12 happens: one datagram ended in the early return and another in an
\* exception, a query has failed, and no connection is left open.
C12_Witness ==
    /\ "discarded" \in {log[i].msg : i \in DOMAIN log}
    /\ {log[i].msg : i \in DOMAIN log}
          \cap {"JSONDecodeError", "ValueError", "DatabaseError", "OperationalError"} # {}
    /\ \E h \in Handlers :
          hpc[h] = "done" /\ hep[h] = "latest_location" /\ hresp[h].status = 500
    /\ NoOperation
    /\ OpenConnections = 0

\* a row with all its columns: an id, both coordinates as doubles and the
\* time of the report
Complete(r) ==
    /\ r.id > 0
    /\ r.latitude.t = "float"
    /\ r.longitude.t = "float"
    /\ r.app_timestamp.t = "datetime"

\* C13: an insert is all or nothing: every row of the table is complete,
\* the table has one row for each insert logged as saved and none for any
\* other call, the row of an open transaction is not in the table, and a
\* 200 answer of the query carries the three values of one committed row.
C13_InsertAtomic ==
    /\ \A i \in DOMAIN rows : Complete(rows[i])
    /\ Len(rows) = Cardinality({i \in DOMAIN log : log[i].msg = "saved"})
    /\ \A n \in 1..seq : Cardinality(RowsOf(n)) <= 1
    /\ ltxn # NoRow => ltxn \notin Range(rows)
    /\ \A h \in Handlers :
          (hep[h] = "latest_location" /\ hresp[h].status = 200)
          => \E r \in Range(rows) :
                /\ hresp[h].latitude = r.latitude
                /\ hresp[h].longitude = r.longitude
                /\ hresp[h].timestamp.v = r.app_timestamp.v

\* C13 happens: the query has run while the first INSERT waits for its
\* commit, and it has answered 404: it saw the table without the row.
C13_Witness ==
    \E h \in Handlers :
        /\ rows = <<>>
        /\ lpc = "commit"
        /\ ltxn # NoRow
        /\ hep[h] = "latest_location"
        /\ hpc[h] = "close"
        /\ hresp[h].status = 404

\* a step of a request handler h, of any endpoint
HandlerStep(h) ==
    \/ health_check(h)
    \/ TestDbConnect(h)
    \/ TestDbQuery(h)
    \/ LatestConnect(h)
    \/ LatestQuery(h)
    \/ HandlerClose(h)

\* C14: the HTTP operations only read: no step of a request to
\* /api/latest_location, /api/health or /api/db_test, whatever its answer,
\* changes the rows, the id sequence or the existence of the table.
C14_RequestsReadOnly ==
    [][\A h \in Handlers :
         HandlerStep(h) => /\ rows' = rows
                           /\ nextId' = nextId
                           /\ tableExists' = tableExists]_vars

\* C14 happens: with a row in the table, /api/latest_location has been
\* answered 200 and the row is still there.
C14_Witness ==
    \E h \in Handlers :
        /\ Len(rows) = 1
        /\ hep[h] = "latest_location"
        /\ hpc[h] = "done"
        /\ hresp[h].status = 200
        /\ hresp[h].latitude = rows[1].latitude

\* the store as setup_database's statement leaves it, from a store where the
\* table exists or not and holds the rows tbl
AfterSetup(exists, tbl) == CreateTable(exists, tbl)

\* C15: setup_database is idempotent.  Run where the locations table already
\* exists and the store is reachable it succeeds and changes no row, no id and
\* not the table; and a second run after a first leaves the store as the
\* first left it.
C15_SetupIdempotent ==
    /\ [](LET once  == AfterSetup(tableExists, rows)
              twice == AfterSetup(once.exists, once.rows)
          IN  /\ once.ok /\ twice.ok
              /\ twice.exists = once.exists
              /\ twice.rows = once.rows
              /\ tableExists => once.exists /\ once.rows = rows)
    /\ [][(SetupDDL /\ dbUp /\ tableExists)
             => /\ mpc' = "setup_ok"
                /\ tableExists'
                /\ rows' = rows
                /\ nextId' = nextId]_vars

\* C15 happens: the process was started again over a table holding one row,
\* and setup_database has succeeded with the row still in place.
C15_Witness ==
    /\ mpc = "setup_ok"
    /\ tableExists
    /\ Len(rows) = 1
    /\ nextId = 2
    /\ HasRow(rows[1].dgram)

\* the datagrams, by order of receipt, that have a row
Stored == {n \in 1..seq : HasRow(n)}

\* C16: row ids follow the order of receipt.  The rows of the table are in
\* increasing id and in increasing order of receipt, the listener is never
\* at recvfrom with an insert unfinished, and the row that
\* get_latest_location selects is that of the most recently received
\* datagram among the stored ones.
C16_IdsFollowReceipt ==
    /\ \A i, j \in DOMAIN rows :
           i < j => rows[i].id < rows[j].id /\ rows[i].dgram < rows[j].dgram
    /\ lpc = "recv" => ltxn = NoRow /\ ~lconn
    /\ ltxn # NoRow => ltxn.dgram = seq /\ \A n \in Stored : n < seq
    /\ rows # <<>> =>
           /\ SelectLatest(rows).dgram \in Stored
           /\ \A n \in Stored : n <= SelectLatest(rows).dgram

\* C16 happens: two datagrams were stored, the second with an older sender
\* time than the first, and a request was answered with the second.
C16_Witness ==
    \E h \in Handlers :
        /\ Len(rows) = 2
        /\ rows[2].app_timestamp.v < rows[1].app_timestamp.v
        /\ hep[h] = "latest_location" /\ hpc[h] = "done"
        /\ hresp[h].status = 200
        /\ hresp[h].timestamp.v = rows[2].app_timestamp.v

\* a listener or a handler has been started
ServicesStarted ==
    \/ lpc # "notstarted"
    \/ seq > 0
    \/ \E h \in Handlers : hpc[h] # "idle" \/ hresp[h] # NoResp

\* C17: startup ordering.  The listener and the HTTP handlers run only in a
\* process whose setup_database succeeded, which left the table in place and
\* its connection closed; a process whose setup_database failed has exited
\* with no listener started, no datagram received and no request served.
C17_StartupOrdering ==
    /\ ServicesStarted => mpc = "serving" /\ tableExists /\ ~mconn
    /\ mpc = "setup_failed" => ~ServicesStarted
    /\ mpc = "exited" =>
           /\ ~ServicesStarted
           /\ rows = <<>> /\ log = <<>>
           /\ OpenConnections = 0

\* setup_database succeeded: a datagram has been stored and a request served
C17_Served ==
    /\ mpc = "serving" /\ Len(rows) = 1 /\ lpc = "recv"
    /\ \E h \in Handlers : hpc[h] = "done" /\ hep[h] = "db_test"

\* C17 happens: setup_database has failed and the process has exited, on a
\* store that is reachable again and has no table; nothing was started.
C17_Witness ==
    /\ mpc = "exited" /\ dbUp /\ ~tableExists
    /\ lpc = "notstarted" /\ seq = 0

\* latitude, longitude and app_timestamp of a row are not NULL
NonNull(r) ==
    /\ r.latitude.t = "float"
    /\ r.longitude.t = "float"
    /\ r.app_timestamp.t = "datetime"

\* C18: every row written by the listener, committed or still in its
\* transaction, has latitude, longitude and app_timestamp that are not NULL;
\* and a query of get_latest_location that runs on a reachable store with a
\* row in the table answers 200 with the keys latitude, longitude and
\* timestamp, the timestamp formatted.
C18_RowsNonNullQuery200 ==
    /\ [](/\ \A i \in DOMAIN rows : NonNull(rows[i])
          /\ ltxn # NoRow => NonNull(ltxn)
          /\ rows # <<>> => tableExists)
    /\ [][\A h \in Handlers :
            (LatestQuery(h) /\ dbUp /\ rows # <<>>)
               => /\ hresp'[h].status = 200
                  /\ hresp'[h].keys = {"latitude", "longitude", "timestamp"}
                  /\ hresp'[h].latitude.t = "float"
                  /\ hresp'[h].longitude.t = "float"
                  /\ hresp'[h].timestamp.t = "isoformat"]_vars

\* C18 happens: a row with latitude 0, longitude 0 and time 0 is the latest
\* and a request has been answered 200 with it.
C18_Witness ==
    \E h \in Handlers :
        /\ rows # <<>>
        /\ rows[Len(rows)].full_data.time = JInt(0)
        /\ rows[Len(rows)].app_timestamp = Val("datetime", 0)
        /\ hep[h] = "latest_location" /\ hpc[h] = "done"
        /\ hresp[h].status = 200
        /\ hresp[h].timestamp = Val("isoformat", 0)

\* a JSON object with numeric lat and lon and an integer time within the
\* range of datetime, one of the three being 0
ZeroField(d) ==
    /\ NumericPayload(d)
    /\ d.time.v <= DatetimeMaxMs
    /\ d.lat.v = 0 \/ d.lon.v = 0 \/ d.time.v = 0

\* a JSON object in which lat, lon or time is null
NullField(d) ==
    d.kind = "object" /\ (d.lat = JNull \/ d.lon = JNull \/ d.time = JNull)

\* the payload d with its null fields left out
AsMissing(d) ==
    [d EXCEPT !.lat  = IF @ = JNull THEN Absent ELSE @,
              !.lon  = IF @ = JNull THEN Absent ELSE @,
              !.time = IF @ = JNull THEN Absent ELSE @]

\* C19: the required-field check is for absence, not falsiness.  A payload
\* with a field of value 0 passes the check and goes to the INSERT: it is
\* never logged as discarded, only a failure of the store keeps it out of the
\* table, and once processed it has its row exactly when it was logged as
\* saved.  A payload with a null field is handled as the same payload with
\* the field missing: discarded, no row, nothing in a transaction.
C19_AbsenceNotFalsiness ==
    /\ ZeroField(cur) =>
          /\ Prepare(cur).out = "insert"
          /\ Messages(seq) \subseteq {"saved", "no_connection", "OperationalError"}
          /\ lpc = "recv" => (HasRow(seq) <=> Messages(seq) = {"saved"})
          /\ lpc = "recv" => Messages(seq) # {}
    /\ NullField(cur) =>
          /\ MissingField(AsMissing(cur))
          /\ Prepare(cur) = Prepare(AsMissing(cur))
          /\ Prepare(cur).out = "discarded"
          /\ Messages(seq) \subseteq {"discarded", "no_connection"}
          /\ ~HasRow(seq)
          /\ ltxn = NoRow
          /\ Len(rows) = SavedBefore(seq)

\* C19 happens: a payload with lat 0, lon 0 and time 0 was stored, then a
\* payload with a null field was received and discarded.
C19_Witness ==
    /\ Len(rows) = 1
    /\ rows[1].full_data = [lat |-> JInt(0), lon |-> JInt(0), time |-> JInt(0)]
    /\ rows[1].app_timestamp = Val("datetime", 0)
    /\ NullField(cur) /\ ~MissingField(cur)
    /\ lpc = "recv"
    /\ log[Len(log)] = [n |-> seq, msg |-> "discarded"]

\* valid JSON that is not usable as a record: not an object, or an object
\* whose time is there and is not a JSON number
Unusable(d) ==
    \/ d.kind \in {"jarray", "jnumber", "jstring", "jnull"}
    \/ d.kind = "object" /\ d.time.t \in {"str", "bool"}

\* C20: a datagram that is valid JSON but not usable as a record is
\* discarded: no row is made for it, none waits in a transaction, and the
\* table has the rows it had before.
C20_UnusableJsonDiscarded ==
    Unusable(cur) =>
        /\ ~HasRow(seq)
        /\ ltxn = NoRow
        /\ Len(rows) = SavedBefore(seq)

====
